---- MODULE Spec2Model ----
(***************************************************************************)
(* A model of the universal-kyc back end: the OCR extraction client and    *)
(* the document comparison of src/services/ocr.js, the KYC service of      *)
(* src/services/kyc.js and the request chains of src/routes/kyc.js.        *)
(*                                                                         *)
(* Strings that the code inspects character by character (document type    *)
(* names, field values) are tuples of one-character strings, so that       *)
(* toLowerCase and trimming are computed and not assumed.                  *)
(***************************************************************************)
EXTENDS Integers, Sequences, FiniteSets, TLC

VARIABLES
    docType,      \* compareDocumentByType: the documentType argument
    ocrData,      \* compareDocumentByType: the ocrData argument (raw field map)
    kycData,      \* compareDocumentByType: the kycData argument (raw field map)
    cmp,          \* compareDocumentByType: position of the call and what it produced
    ext,          \* extractDataFromDocument: position of the call, the service's answer, the outcome
    kycs,         \* the Kyc collection: id -> document or NoDoc
    moderations,  \* the Moderation collection: a sequence of documents
    reqs,         \* the upload requests in flight: position in the route's chain, trace, outcome
    resp,         \* the response of the last service operation (status update, read, create)
    lastWrite     \* history: the target of the last successful status update per submission

vars == <<docType, ocrData, kycData, cmp, ext, kycs, moderations, reqs, resp, lastWrite>>


-----------------------------------------------------------------------------
(* Strings as tuples of characters                                         *)

\* Longest raw field value drawn as an input.
MaxLen == 1

\* Letters of the raw field values: a lower-case and an upper-case one.
Alphabet == {"a", "B"}

\* Raw field values with blanks around them.
BlankValues == {<<" ">>, <<" ", "a">>}

UpperChars == <<"A", "B", "C", "D", "E", "F", "G", "H", "I", "J", "K", "L", "M",
                "N", "O", "P", "Q", "R", "S", "T", "U", "V", "W", "X", "Y", "Z">>

LowerChars == <<"a", "b", "c", "d", "e", "f", "g", "h", "i", "j", "k", "l", "m",
                "n", "o", "p", "q", "r", "s", "t", "u", "v", "w", "x", "y", "z">>

\* String.prototype.toLowerCase on one character.
lowerChar(c) ==
    IF \E i \in 1..Len(UpperChars) : UpperChars[i] = c
    THEN LowerChars[CHOOSE i \in 1..Len(UpperChars) : UpperChars[i] = c]
    ELSE c

\* String.prototype.toLowerCase.
toLowerCase(s) == [i \in 1..Len(s) |-> lowerChar(s[i])]

RECURSIVE trimStart(_)
trimStart(s) ==
    IF s # <<>> /\ Head(s) = " " THEN trimStart(Tail(s)) ELSE s

RECURSIVE trimEnd(_)
trimEnd(s) ==
    IF s # <<>> /\ s[Len(s)] = " " THEN trimEnd(SubSeq(s, 1, Len(s) - 1)) ELSE s

trim(s) == trimEnd(trimStart(s))

Min2(a, b) == IF a <= b THEN a ELSE b

Max2(a, b) == IF a >= b THEN a ELSE b

RECURSIVE editDistance(_, _)
editDistance(a, b) ==
    IF a = <<>> THEN Len(b)
    ELSE IF b = <<>> THEN Len(a)
    ELSE IF Head(a) = Head(b) THEN editDistance(Tail(a), Tail(b))
    ELSE 1 + Min2(editDistance(Tail(a), Tail(b)),
                  Min2(editDistance(Tail(a), b), editDistance(a, Tail(b))))

-----------------------------------------------------------------------------
(* src/services/ocr.js: compareDocumentByType and what it calls            *)

\* The similarity, in percent, from which two values count as the same.
SimilarityThresholdPct == 80

\* utils/stringComparison: the fuzzy comparator. Two empty values match, an
\* empty and a non-empty value do not, and otherwise the normalized edit
\* distance decides.
compareStrings(a, b) ==
    IF a = <<>> /\ b = <<>> THEN TRUE
    ELSE IF a = <<>> \/ b = <<>> THEN FALSE
    ELSE 100 * (Max2(Len(a), Len(b)) - editDistance(a, b))
            >= SimilarityThresholdPct * Max2(Len(a), Len(b))

\* The comparable fields of a document, in the order the sanitizers emit them.
FieldOrder == <<"name", "idNumber">>

Fields == {FieldOrder[i] : i \in 1..Len(FieldOrder)}

\* One normalized value: trimmed and case-folded.
normalizeValue(v) == toLowerCase(trim(v))

\* utils/setDoc/*: every sanitizer emits the document's whole field set, a
\* field its input lacks as the empty string.
sanitizeFields(data) ==
    [f \in Fields |-> IF f \in DOMAIN data THEN normalizeValue(data[f]) ELSE <<>>]

sanitizeAadharData(data) == sanitizeFields(data)
sanitizeModKycDataAadhar(data) == sanitizeFields(data)
sanitizePassportData(data) == sanitizeFields(data)
sanitizeModKycDataPassport(data) == sanitizeFields(data)
sanitizePanCardData(data) == sanitizeFields(data)
sanitizeModKycDataPanCard(data) == sanitizeFields(data)
sanitizeDrivingLicenseData(data) == sanitizeFields(data)
sanitizeModKycDataDrivingLicense(data) == sanitizeFields(data)
sanitizeVoterIdData(data) == sanitizeFields(data)
sanitizeModKycDataVoterId(data) == sanitizeFields(data)

AadhaarCard == <<"a", "a", "d", "h", "a", "a", "r", "-", "c", "a", "r", "d">>
Passport == <<"p", "a", "s", "s", "p", "o", "r", "t">>
PanCard == <<"p", "a", "n", "-", "c", "a", "r", "d">>
Dl == <<"d", "l">>
VoterId == <<"v", "o", "t", "e", "r", "-", "i", "d">>

\* The case labels of the switch.
SupportedTypes == {AadhaarCard, Passport, PanCard, Dl, VoterId}

\* The sanitizer pair a case of the switch selects: the sanitized OCR map,
\* the sanitized KYC map and the names of the sanitizers that ran.
selectSanitizers(t, ocr, kyc) ==
    CASE t = AadhaarCard ->
            [ocr |-> sanitizeAadharData(ocr), kyc |-> sanitizeModKycDataAadhar(kyc),
             calls |-> <<"sanitizeAadharData", "sanitizeModKycDataAadhar">>]
      [] t = Passport ->
            [ocr |-> sanitizePassportData(ocr), kyc |-> sanitizeModKycDataPassport(kyc),
             calls |-> <<"sanitizePassportData", "sanitizeModKycDataPassport">>]
      [] t = PanCard ->
            [ocr |-> sanitizePanCardData(ocr), kyc |-> sanitizeModKycDataPanCard(kyc),
             calls |-> <<"sanitizePanCardData", "sanitizeModKycDataPanCard">>]
      [] t = Dl ->
            [ocr |-> sanitizeDrivingLicenseData(ocr),
             kyc |-> sanitizeModKycDataDrivingLicense(kyc),
             calls |-> <<"sanitizeDrivingLicenseData", "sanitizeModKycDataDrivingLicense">>]
      [] t = VoterId ->
            [ocr |-> sanitizeVoterIdData(ocr), kyc |-> sanitizeModKycDataVoterId(kyc),
             calls |-> <<"sanitizeVoterIdData", "sanitizeModKycDataVoterId">>]

\* Object.keys(sanitizedOcrData): the keys of the sanitized OCR map in order.
objectKeys(obj) ==
    LET idx == {i \in 1..Len(FieldOrder) : FieldOrder[i] \in DOMAIN obj}
        RECURSIVE pick(_)
        pick(i) == IF i > Len(FieldOrder) THEN <<>>
                   ELSE IF i \in idx THEN <<FieldOrder[i]>> \o pick(i + 1)
                   ELSE pick(i + 1)
    IN pick(1)

\* The value read at a key of a sanitized map; a key the map lacks reads as
\* undefined, which the comparator takes as the empty string.
valueAt(obj, f) == IF f \in DOMAIN obj THEN obj[f] ELSE <<>>

\* A loop that skips the keys whose OCR value is empty.
comparisonResultsOf_SkipEmpty(socr, skyc) ==
    LET keys == SelectSeq(objectKeys(socr), LAMBDA f : socr[f] # <<>>)
    IN [i \in 1..Len(keys) |->
            [field |-> keys[i],
             isMatch |-> compareStrings(socr[keys[i]], valueAt(skyc, keys[i])),
             ocrValue |-> socr[keys[i]],
             kycValue |-> valueAt(skyc, keys[i])]]

\* The comparisonResults array: one entry per key of the sanitized OCR map.
comparisonResultsOf(socr, skyc) ==
    LET keys == objectKeys(socr)
    IN [i \in 1..Len(keys) |->
            [field |-> keys[i],
             isMatch |-> compareStrings(socr[keys[i]], valueAt(skyc, keys[i])),
             ocrValue |-> socr[keys[i]],
             kycValue |-> valueAt(skyc, keys[i])]]

\* The mismatchResults object built by the forEach.
mismatchResultsOf(results) ==
    LET failing == {i \in 1..Len(results) : ~results[i].isMatch}
    IN [f \in {results[i].field : i \in failing} |->
            LET r == results[CHOOSE i \in failing : results[i].field = f]
            IN [ocrValue |-> r.ocrValue, kycValue |-> r.kycValue,
                reason |-> <<"Mismatch", r.ocrValue, r.kycValue>>]]

\* What a call of compareDocumentByType produces: the error it threw (none or
\* one), the value it returned (none or one), the sanitizers it ran and the
\* field comparisons it made.
Threw(err, calls, results) ==
    [error |-> <<err>>, value |-> <<>>, sanitizerCalls |-> calls,
     comparisonResults |-> results]

Returned(val, calls, results) ==
    [error |-> <<>>, value |-> <<val>>, sanitizerCalls |-> calls,
     comparisonResults |-> results]

\* isMatch computed with some() instead of every().
compareDocumentByType_Some(documentType, ocr, kyc) ==
    LET t == toLowerCase(documentType)
    IN IF t \notin SupportedTypes
       THEN Threw(<<"Unsupported document type", documentType>>, <<>>, <<>>)
       ELSE LET s == selectSanitizers(t, ocr, kyc)
                results == comparisonResultsOf(s.ocr, s.kyc)
            IN Returned([isMatch |-> \E i \in 1..Len(results) : results[i].isMatch,
                         mismatchResults |-> mismatchResultsOf(results)],
                        s.calls, results)

\* A default case that lets an unknown type through as a match.
compareDocumentByType_DefaultPass(documentType, ocr, kyc) ==
    LET t == toLowerCase(documentType)
    IN IF t \notin SupportedTypes
       THEN Returned([isMatch |-> TRUE, mismatchResults |-> <<>>], <<>>, <<>>)
       ELSE LET s == selectSanitizers(t, ocr, kyc)
                results == comparisonResultsOf(s.ocr, s.kyc)
            IN Returned([isMatch |-> \A i \in 1..Len(results) : results[i].isMatch,
                         mismatchResults |-> mismatchResultsOf(results)],
                        s.calls, results)

compareDocumentByType(documentType, ocr, kyc) ==
    LET t == toLowerCase(documentType)
    IN IF t \notin SupportedTypes
       THEN Threw(<<"Unsupported document type", documentType>>, <<>>, <<>>)
       ELSE LET s == selectSanitizers(t, ocr, kyc)
                results == comparisonResultsOf(s.ocr, s.kyc)
            IN Returned([isMatch |-> \A i \in 1..Len(results) : results[i].isMatch,
                         mismatchResults |-> mismatchResultsOf(results)],
                        s.calls, results)

\* The raw field values drawn as inputs.
RawValues == UNION {[1..n -> Alphabet] : n \in 0..MaxLen} \cup BlankValues

\* The raw field maps drawn as inputs: any subset of the fields, any values.
RawMaps == UNION {[D -> RawValues] : D \in SUBSET Fields}

\* The document type strings drawn as inputs: the five of the switch, case
\* variants of them, and strings that name no document.
DocTypeInputs ==
    SupportedTypes \cup
    {<<"P", "A", "S", "S", "P", "O", "R", "T">>, <<"D", "l">>,
     <<"a", "a", "d", "h", "a", "r">>, <<"s", "s", "n">>, <<>>}

NoCall == [error |-> <<>>, value |-> <<>>, sanitizerCalls |-> <<>>,
           comparisonResults |-> <<>>]

CompareInit ==
    /\ docType \in DocTypeInputs
    /\ ocrData \in RawMaps
    /\ kycData \in RawMaps
    /\ cmp = [pc |-> "ready", out |-> NoCall]

\* One call of compareDocumentByType on the drawn inputs.
Compare ==
    /\ cmp.pc = "ready"
    /\ cmp' = [pc |-> "done", out |-> compareDocumentByType(docType, ocrData, kycData)]
    /\ UNCHANGED <<docType, ocrData, kycData, ext, kycs, moderations, reqs, resp, lastWrite>>

-----------------------------------------------------------------------------
(* src/services/ocr.js: extractDataFromDocument                            *)

\* The keys of the service's OCR section: document fields and the validity
\* metadata.
OcrKeys == {"name", "idNumber", "validState"}

OcrSections == UNION {[D -> RawValues] : D \in SUBSET OcrKeys}

\* The bodies the service can answer with. An absent part is the empty
\* tuple, a present one a tuple of one element.
Bodies ==
    {[status |-> st, data |-> d] :
        st \in {"ok", "error"},
        d \in {<<>>, <<[ocr |-> <<>>]>>} \cup {<<[ocr |-> <<o>>]>> : o \in OcrSections}}

\* What awaiting axios.post can come to: a response (with or without a
\* body), a rejection that carries the service's HTTP error response, a
\* rejection by the transport, or nothing at all: the request sets no
\* timeout, so a service that never answers leaves the promise pending.
ServiceAnswers ==
    {[kind |-> "response", body |-> <<>>]} \cup
    {[kind |-> "response", body |-> <<b>>] : b \in Bodies} \cup
    {[kind |-> k, body |-> <<>>] : k \in {"httpError", "networkError", "silent"}}

\* delete extractedData.validState
withoutValidState(o) == [k \in (DOMAIN o) \ {"validState"} |-> o[k]]

\* The try block after the await: the value it returns or the error it
\* throws.
tryBlock(answer) ==
    IF answer.kind # "response"
    THEN [thrown |-> <<answer.kind>>, value |-> <<>>]
    ELSE IF answer.body = <<>>
    THEN [thrown |-> <<"Invalid OCR API response">>, value |-> <<>>]
    ELSE LET data == answer.body[1]
         IN IF data.status # "ok"
            THEN [thrown |-> <<"OCR API error">>, value |-> <<>>]
            ELSE IF data.data = <<>> \/ data.data[1].ocr = <<>>
            THEN [thrown |-> <<"OCR data is missing in API response">>, value |-> <<>>]
            ELSE [thrown |-> <<>>, value |-> <<withoutValidState(data.data[1].ocr[1])>>]

\* The catch block: whatever was thrown is logged and replaced.
catchBlock(thrown) == "OCR extraction failed"

\* What a settled call gives its caller: the value, or the error.
extractDataFromDocument(answer) ==
    LET t == tryBlock(answer)
    IN IF t.thrown = <<>>
       THEN [error |-> <<>>, value |-> t.value]
       ELSE [error |-> <<catchBlock(t.thrown[1])>>, value |-> <<>>]

NoOutcome == [error |-> <<>>, value |-> <<>>]

ExtractInit ==
    ext = [pc |-> "idle", answer |-> [kind |-> "none", body |-> <<>>], out |-> NoOutcome]

\* The call posts the image and awaits the service.
PostImage ==
    /\ ext.pc = "idle"
    /\ \E a \in ServiceAnswers :
          ext' = [ext EXCEPT !.pc = "awaiting", !.answer = a]
    /\ UNCHANGED <<docType, ocrData, kycData, cmp, kycs, moderations, reqs, resp, lastWrite>>

\* The promise resolves: the rest of the try block runs.
ResponseArrives ==
    /\ ext.pc = "awaiting"
    /\ ext.answer.kind = "response"
    /\ LET out == extractDataFromDocument(ext.answer)
       IN ext' = [ext EXCEPT !.pc = IF out.error = <<>> THEN "returned" ELSE "failed",
                             !.out = out]
    /\ UNCHANGED <<docType, ocrData, kycData, cmp, kycs, moderations, reqs, resp, lastWrite>>

\* The promise rejects: control goes to the catch block.
RequestRejected ==
    /\ ext.pc = "awaiting"
    /\ ext.answer.kind \in {"httpError", "networkError"}
    /\ ext' = [ext EXCEPT !.pc = "failed", !.out = extractDataFromDocument(ext.answer)]
    /\ UNCHANGED <<docType, ocrData, kycData, cmp, kycs, moderations, reqs, resp, lastWrite>>

\* The steps that settle a pending call.
Settle == ResponseArrives \/ RequestRejected

-----------------------------------------------------------------------------
(* src/services/kyc.js: the KYC service over the Kyc and Moderation        *)
(* collections. An absent document (null) is the empty tuple, a present    *)
(* one a tuple of one element.                                             *)

KycIds == {"k1", "k2"}

IdTypes == {"passport", "dl"}

\* The Kyc schema's default status.
Pending == "Pending"

\* The status values a client may send.
StatusInputs == {"Pending", "Verified", "Rejected", "Approved", "pending"}

\* A Moderation document: the verdicts the readers format. The OCR detail,
\* the confidence, the liveliness results and the timestamps are copied
\* like the two verdicts kept here.
ModerationDocs == [kycId : KycIds, ocrMatch : BOOLEAN, faceMatch : BOOLEAN]

\* Kyc.findById
findById(store, kycId) == store[kycId]

\* Moderation.findOne({ kycId }): the first document of the submission.
findOne(mods, kycId) ==
    LET hits == {i \in 1..Len(mods) : mods[i].kycId = kycId}
    IN IF hits = {} THEN <<>>
       ELSE <<mods[CHOOSE i \in hits : \A j \in hits : i <= j]>>

\* The number of Moderation documents of a submission.
countModerations(mods, kycId) ==
    Cardinality({i \in 1..Len(mods) : mods[i].kycId = kycId})

validStatuses == {"Pending", "Verified", "Rejected"}

InvalidStatus == "Invalid KYC status provided"

\* An update that answers with the changed document and stores nothing.
updateKycStatus_NotStored(store, kycId, kycStatus) ==
    IF kycStatus \notin validStatuses
    THEN [error |-> <<InvalidStatus>>, value |-> <<>>, kycs |-> store]
    ELSE IF store[kycId] = <<>>
    THEN [error |-> <<>>, value |-> <<>>, kycs |-> store]
    ELSE [error |-> <<>>,
          value |-> <<[store[kycId][1] EXCEPT !.kycStatus = kycStatus]>>,
          kycs |-> store]

\* updateKycStatus: the error thrown or the document findByIdAndUpdate
\* returns (null for an unknown id), and the collection afterwards.
updateKycStatus(store, kycId, kycStatus) ==
    IF kycStatus \notin validStatuses
    THEN [error |-> <<InvalidStatus>>, value |-> <<>>, kycs |-> store]
    ELSE IF store[kycId] = <<>>
    THEN [error |-> <<>>, value |-> <<>>, kycs |-> store]
    ELSE LET doc == [store[kycId][1] EXCEPT !.kycStatus = kycStatus]
         IN [error |-> <<>>, value |-> <<doc>>,
             kycs |-> [store EXCEPT ![kycId] = <<doc>>]]

\* The formattedModeration object; the empty tuple stands for the string
\* "No moderation data available".
formatModeration(moderation) ==
    IF moderation = <<>> THEN <<>>
    ELSE <<[ocrMatch |-> moderation[1].ocrMatch,
            faceMatch |-> moderation[1].faceMatch]>>

\* An owner read written like the reviewer read: it attaches the moderation.
getKycById_WithModeration(store, mods, kycId) ==
    LET kyc == findById(store, kycId)
    IN IF kyc = <<>> THEN <<>>
       ELSE <<[id |-> kycId, documentType |-> kyc[1].idType,
               kycStatus |-> kyc[1].kycStatus,
               moderation |-> formatModeration(findOne(mods, kycId))]>>

\* getKycById: null, or the formatted entry. The personal and address
\* fields are copied from the Kyc document like documentType.
getKycById(store, mods, kycId) ==
    LET kyc == findById(store, kycId)
    IN IF kyc = <<>> THEN <<>>
       ELSE <<[id |-> kycId, documentType |-> kyc[1].idType,
               kycStatus |-> kyc[1].kycStatus]>>

\* getKycWithModeration: the error thrown or the formatted entry.
getKycWithModeration(store, mods, kycId) ==
    LET kyc == findById(store, kycId)
    IN IF kyc = <<>>
       THEN [error |-> <<"Error fetching KYC with moderation: KYC entry not found">>,
             value |-> <<>>]
       ELSE [error |-> <<>>,
             value |-> <<[id |-> kycId, documentType |-> kyc[1].idType,
                          kycStatus |-> kyc[1].kycStatus,
                          moderation |-> formatModeration(findOne(mods, kycId))]>>]

\* A creation that relies on the route's earlier check alone.
createModeration_Unguarded(mods, doc) ==
    [error |-> <<>>, mods |-> Append(mods, doc)]

\* The Moderation Aggregator's creation: the collection keeps one document
\* per submission, so a second one is refused and the first left as it is.
createModeration(mods, doc) ==
    IF findOne(mods, doc.kycId) # <<>>
    THEN [error |-> <<"DuplicateModeration">>, mods |-> mods]
    ELSE [error |-> <<>>, mods |-> Append(mods, doc)]

-----------------------------------------------------------------------------
(* src/routes/kyc.js: the chains of the routes. Express runs a route's     *)
(* handlers in the order they are registered; a handler either calls next  *)
(* or answers the request, which ends the chain.                           *)

\* The upload handling registered ahead of the three checks.
RoutePostUpload_UploadFirst ==
    <<"userRateLimiter", "userAuth", "upload.fields", "checkImageQualityMiddleware",
      "checkKycExists", "checkExistingModeration", "KycController.uploadKycAssets">>

\* router.post("/:kycId/upload", ...)
RoutePostUpload ==
    <<"userRateLimiter", "userAuth", "checkImageQualityMiddleware", "checkKycExists",
      "checkExistingModeration", "upload.fields", "KycController.uploadKycAssets">>

\* router.get("/:id/admin", ...)
RouteGetKycAdmin == <<"adminRateLimiter", "adminAuth", "KycController.getKycWithModeration">>

\* router.get("/:id", ...)
RouteGetKyc == <<"userRateLimiter", "userAuth", "KycController.getKycById">>

\* router.put("/:id/status", ...)
RoutePutStatus == <<"adminAuth", "KycController.updateKycStatus">>

\* The handlers of a route ahead of its controller.
gatesOf(route) == {route[i] : i \in 1..(Len(route) - 1)}

\* middlewares/kycValidator: the submission of the request must exist.
checkKycExists(store, kycId) ==
    IF findById(store, kycId) = <<>> THEN "SubmissionNotFound" ELSE "next"

\* middlewares/moderationValidator: the submission must have no moderation.
checkExistingModeration(mods, kycId) ==
    IF findOne(mods, kycId) # <<>> THEN "DuplicateModeration" ELSE "next"

\* What a handler ahead of the controller does with a request: "next", or
\* the error it answers with. The rate limiter, the authentication, the
\* image quality check and the upload handling decide on what the request
\* carries (pass).
runMiddleware(mw, store, mods, kycId, pass) ==
    CASE mw = "checkKycExists" -> checkKycExists(store, kycId)
      [] mw = "checkExistingModeration" -> checkExistingModeration(mods, kycId)
      [] OTHER -> IF pass THEN "next" ELSE "Rejected"

\* The upload requests.
NumRequests == 2

Requests == 1..NumRequests

NewRequest == [kycId |-> "none", phase |-> "new", pc |-> 1, trace |-> <<>>,
               outcome |-> "none", created |-> FALSE]

NoResponse == [op |-> "none", id |-> "none", arg |-> "none", rejectedBy |-> <<>>,
               error |-> <<>>, value |-> <<>>]

StoreInit ==
    /\ kycs = [k \in KycIds |-> <<>>]
    /\ moderations = <<>>
    /\ reqs = [r \in Requests |-> NewRequest]
    /\ resp = NoResponse
    /\ lastWrite = [k \in KycIds |-> "none"]

\* KycController.createKyc: a new submission, Pending.
CreateKyc(kycId, idType) ==
    /\ kycs[kycId] = <<>>
    /\ kycs' = [kycs EXCEPT ![kycId] = <<[idType |-> idType, kycStatus |-> Pending]>>]
    /\ resp' = [NoResponse EXCEPT !.op = "createKyc", !.id = kycId, !.arg = idType]
    /\ UNCHANGED <<moderations, reqs, lastWrite>>
    /\ UNCHANGED <<docType, ocrData, kycData, cmp, ext>>

\* A client posts an upload for a submission id.
Arrive(r, kycId) ==
    /\ reqs[r].phase = "new"
    /\ reqs' = [reqs EXCEPT ![r].kycId = kycId, ![r].phase = "chain"]
    /\ UNCHANGED <<kycs, moderations, resp, lastWrite>>
    /\ UNCHANGED <<docType, ocrData, kycData, cmp, ext>>

\* The request's next handler ahead of the controller runs.
RunGate(r) ==
    /\ reqs[r].phase = "chain"
    /\ RoutePostUpload[reqs[r].pc] # "KycController.uploadKycAssets"
    /\ \E pass \in BOOLEAN :
          LET mw == RoutePostUpload[reqs[r].pc]
              res == runMiddleware(mw, kycs, moderations, reqs[r].kycId, pass)
          IN reqs' = [reqs EXCEPT
                        ![r].trace = Append(@, <<mw, res>>),
                        ![r].pc = IF res = "next" THEN @ + 1 ELSE @,
                        ![r].phase = IF res = "next" THEN "chain" ELSE "done",
                        ![r].outcome = IF res = "next" THEN "none" ELSE res]
    /\ UNCHANGED <<kycs, moderations, resp, lastWrite>>
    /\ UNCHANGED <<docType, ocrData, kycData, cmp, ext>>

\* The controller starts: extraction and comparison of the document.
ControllerExtract(r) ==
    /\ reqs[r].phase = "chain"
    /\ RoutePostUpload[reqs[r].pc] = "KycController.uploadKycAssets"
    /\ \E extracted \in BOOLEAN :
          reqs' = [reqs EXCEPT
                     ![r].trace = Append(@, <<"KycController.uploadKycAssets",
                                              IF extracted THEN "next"
                                              ELSE "OCR extraction failed">>),
                     ![r].phase = IF extracted THEN "aggregate" ELSE "done",
                     ![r].outcome = IF extracted THEN "none" ELSE "OCR extraction failed"]
    /\ UNCHANGED <<kycs, moderations, resp, lastWrite>>
    /\ UNCHANGED <<docType, ocrData, kycData, cmp, ext>>

\* The controller ends: the moderation record is created and the request
\* answered.
ControllerAggregate(r) ==
    /\ reqs[r].phase = "aggregate"
    /\ \E ocrMatch \in BOOLEAN, faceMatch \in BOOLEAN :
          LET res == createModeration(moderations,
                        [kycId |-> reqs[r].kycId, ocrMatch |-> ocrMatch,
                         faceMatch |-> faceMatch])
          IN /\ moderations' = res.mods
             /\ reqs' = [reqs EXCEPT
                           ![r].phase = "done",
                           ![r].created = (res.error = <<>>),
                           ![r].outcome = IF res.error = <<>> THEN "ok" ELSE res.error[1]]
    /\ UNCHANGED <<kycs, resp, lastWrite>>
    /\ UNCHANGED <<docType, ocrData, kycData, cmp, ext>>

\* PUT /:id/status
PutStatus(kycId, kycStatus) ==
    /\ UNCHANGED <<docType, ocrData, kycData, cmp, ext>>
    /\ \E rej \in {<<>>} \cup {<<g>> : g \in gatesOf(RoutePutStatus)} :
          LET res == updateKycStatus(kycs, kycId, kycStatus)
          IN IF rej # <<>>
             THEN /\ resp' = [NoResponse EXCEPT !.op = "updateKycStatus", !.id = kycId,
                                                !.arg = kycStatus, !.rejectedBy = rej]
                  /\ UNCHANGED <<kycs, moderations, reqs, lastWrite>>
             ELSE /\ kycs' = res.kycs
                  /\ resp' = [NoResponse EXCEPT !.op = "updateKycStatus", !.id = kycId,
                                                !.arg = kycStatus, !.error = res.error,
                                                !.value = res.value]
                  /\ lastWrite' = IF res.error = <<>> /\ res.value # <<>>
                                  THEN [lastWrite EXCEPT ![kycId] = kycStatus]
                                  ELSE lastWrite
                  /\ UNCHANGED <<moderations, reqs>>

\* GET /:id
GetKyc(kycId) ==
    /\ \E rej \in {<<>>} \cup {<<g>> : g \in gatesOf(RouteGetKyc)} :
          resp' = IF rej # <<>>
                  THEN [NoResponse EXCEPT !.op = "getKycById", !.id = kycId,
                                          !.rejectedBy = rej]
                  ELSE [NoResponse EXCEPT !.op = "getKycById", !.id = kycId,
                                          !.value = getKycById(kycs, moderations, kycId)]
    /\ UNCHANGED <<kycs, moderations, reqs, lastWrite>>
    /\ UNCHANGED <<docType, ocrData, kycData, cmp, ext>>

\* GET /:id/admin
GetKycAdmin(kycId) ==
    /\ \E rej \in {<<>>} \cup {<<g>> : g \in gatesOf(RouteGetKycAdmin)} :
          LET res == getKycWithModeration(kycs, moderations, kycId)
          IN resp' = IF rej # <<>>
                     THEN [NoResponse EXCEPT !.op = "getKycWithModeration", !.id = kycId,
                                             !.rejectedBy = rej]
                     ELSE [NoResponse EXCEPT !.op = "getKycWithModeration", !.id = kycId,
                                             !.error = res.error, !.value = res.value]
    /\ UNCHANGED <<kycs, moderations, reqs, lastWrite>>
    /\ UNCHANGED <<docType, ocrData, kycData, cmp, ext>>

\* An upload for an existing submission reaches the end of its controller.
ModerationRecorded(doc) ==
    /\ kycs[doc.kycId] # <<>>
    /\ LET res == createModeration(moderations, doc)
       IN /\ moderations' = res.mods
          /\ resp' = [NoResponse EXCEPT !.op = "uploadKycAssets", !.id = doc.kycId,
                                        !.error = res.error]
    /\ UNCHANGED <<kycs, reqs, lastWrite>>
    /\ UNCHANGED <<docType, ocrData, kycData, cmp, ext>>

-----------------------------------------------------------------------------
(* Specifications                                                          *)

CompareIdle ==
    /\ docType = <<>>
    /\ ocrData = <<>>
    /\ kycData = <<>>
    /\ cmp = [pc |-> "off", out |-> NoCall]

ExtractIdle ==
    ext = [pc |-> "off", answer |-> [kind |-> "none", body |-> <<>>], out |-> NoOutcome]

\* The upload route under concurrent requests.
Init == CompareIdle /\ ExtractIdle /\ StoreInit

Next ==
    \/ \E k \in KycIds, t \in IdTypes : CreateKyc(k, t)
    \/ \E r \in Requests, k \in KycIds : Arrive(r, k)
    \/ \E r \in Requests : RunGate(r)
    \/ \E r \in Requests : ControllerExtract(r)
    \/ \E r \in Requests : ControllerAggregate(r)

Spec == Init /\ [][Next]_vars

\* The status updates and the reads.
StatusNext ==
    \/ \E k \in KycIds, t \in IdTypes : CreateKyc(k, t)
    \/ \E k \in KycIds, s \in StatusInputs : PutStatus(k, s)
    \/ \E k \in KycIds : GetKyc(k)
    \/ \E k \in KycIds : GetKycAdmin(k)
    \/ \E d \in ModerationDocs : ModerationRecorded(d)

SpecStatus == Init /\ [][StatusNext]_vars

\* compareDocumentByType on every drawn input.
CompareSpecInit == CompareInit /\ ExtractIdle /\ StoreInit

CompareNext == Compare

SpecCompare == CompareSpecInit /\ [][CompareNext]_vars

\* extractDataFromDocument against every answer of the service.
ExtractSpecInit == CompareIdle /\ ExtractInit /\ StoreInit

ExtractNext ==
    \/ PostImage
    \/ ResponseArrives
    \/ RequestRejected

SpecExtract == ExtractSpecInit /\ [][ExtractNext]_vars

-----------------------------------------------------------------------------
(* Properties                                                              *)

\* The upload requests on submission k that ended in a created moderation or
\* in DuplicateModeration.
settledUploads(k) ==
    {r \in Requests : /\ reqs[r].phase = "done"
                      /\ reqs[r].kycId = k
                      /\ reqs[r].outcome \in {"ok", "DuplicateModeration"}}

\* Whether handler mw ran for request r.
ran(r, mw) == \E i \in 1..Len(reqs[r].trace) : reqs[r].trace[i][1] = mw

\* C1: among concurrent upload requests on one submission, under every
\* interleaving of their existence checks and their creations, exactly one
\* succeeds, the others end in DuplicateModeration, and the submission has
\* exactly one moderation record; no submission ever has two.
C1_ExactlyOneModeration ==
    \A k \in KycIds :
       /\ countModerations(moderations, k) <= 1
       /\ settledUploads(k) # {} =>
             /\ Cardinality({r \in settledUploads(k) : reqs[r].outcome = "ok"}) = 1
             /\ countModerations(moderations, k) = 1

\* C1's case: two requests on one submission both passed the existence check
\* and both reached the creation; one created the record, the other was
\* refused there.
C1_Witness ==
    \E r1 \in Requests, r2 \in Requests :
       /\ r1 # r2
       /\ reqs[r1].kycId = reqs[r2].kycId
       /\ reqs[r1].phase = "done" /\ reqs[r2].phase = "done"
       /\ ran(r1, "KycController.uploadKycAssets")
       /\ ran(r2, "KycController.uploadKycAssets")
       /\ reqs[r1].outcome = "ok"
       /\ reqs[r2].outcome = "DuplicateModeration"

\* The order the upload steps are to run in.
UploadOrder ==
    <<"checkImageQualityMiddleware", "checkKycExists", "checkExistingModeration",
      "upload.fields", "KycController.uploadKycAssets">>

inUploadOrder(e) == \E i \in 1..Len(UploadOrder) : UploadOrder[i] = e[1]

\* C10: the steps of an upload request run in the order quality gate,
\* submission-exists check, duplicate-moderation guard, upload handling,
\* controller; a step that rejects the request is its last step, and a
\* rejected request ran no controller and created no moderation.
C10_UploadChainOrder ==
    \A r \in Requests :
       LET tr == reqs[r].trace
           steps == SelectSeq(tr, inUploadOrder)
       IN /\ \A i \in 1..Len(steps) : steps[i][1] = UploadOrder[i]
          /\ \A i \in 1..Len(tr) :
                (tr[i][2] # "next" /\ tr[i][1] # "KycController.uploadKycAssets") =>
                   /\ i = Len(tr)
                   /\ ~ran(r, "KycController.uploadKycAssets")
                   /\ ~reqs[r].created
          /\ reqs[r].created =>
                /\ ran(r, "KycController.uploadKycAssets")
                /\ \A i \in 1..Len(tr) : tr[i][2] = "next"

\* C10's case: one request went through the whole chain and created the
\* moderation, and another passed the quality gate and the exists check and
\* was rejected by the duplicate guard.
C10_Witness ==
    \E r1 \in Requests, r2 \in Requests :
       /\ reqs[r1].created
       /\ Len(reqs[r1].trace) = Len(RoutePostUpload)
       /\ reqs[r2].phase = "done"
       /\ reqs[r2].outcome = "DuplicateModeration"
       /\ reqs[r2].trace[Len(reqs[r2].trace)][1] = "checkExistingModeration"
       /\ ran(r2, "checkImageQualityMiddleware")
       /\ ran(r2, "checkKycExists")

\* C2: a status update whose target is neither Verified nor Rejected fails
\* with the invalid-status error and leaves the stored statuses as they were.
C2_OnlyTerminalTargets ==
    [][(/\ resp'.op = "updateKycStatus"
        /\ resp'.rejectedBy = <<>>
        /\ resp'.arg \notin {"Verified", "Rejected"})
       => (resp'.error = <<InvalidStatus>> /\ kycs' = kycs)]_vars

\* The Moderation collections two states may differ in.
AllModerationStores ==
    UNION {[1..n -> ModerationDocs] : n \in 0..Cardinality(KycIds)}

\* C8: the owner read is the same whatever the Moderation collection holds,
\* and the reviewer read carries the submission's moderation detail.
C8_OwnerViewIndependent ==
    /\ (resp.op = "getKycById" /\ resp.rejectedBy = <<>>) =>
          \A m \in AllModerationStores : getKycById(kycs, m, resp.id) = resp.value
    /\ (resp.op = "getKycWithModeration" /\ resp.rejectedBy = <<>> /\ resp.error = <<>>) =>
          LET stored == {i \in 1..Len(moderations) : moderations[i].kycId = resp.id}
              shown == resp.value[1].moderation
          IN IF stored = {} THEN shown = <<>>
             ELSE /\ shown # <<>>
                  /\ \E i \in stored : /\ shown[1].ocrMatch = moderations[i].ocrMatch
                                       /\ shown[1].faceMatch = moderations[i].faceMatch

\* C8's case: the owner read of a submission whose moderation found a
\* mismatch.
C8_Witness ==
    /\ resp.op = "getKycById"
    /\ resp.value # <<>>
    /\ \E i \in 1..Len(moderations) :
          moderations[i].kycId = resp.id /\ ~moderations[i].ocrMatch

\* C9: a read of a submission returns the target of the last successful
\* status update on it, and a status update changes no other submission and
\* no moderation record.
C9_LastWriterWins ==
    [][/\ (/\ resp'.op = "getKycById"
           /\ resp'.rejectedBy = <<>>
           /\ lastWrite'[resp'.id] # "none")
          => (resp'.value # <<>> /\ resp'.value[1].kycStatus = lastWrite'[resp'.id])
       /\ resp'.op = "updateKycStatus"
          => (/\ moderations' = moderations
              /\ \A k \in KycIds \ {resp'.id} : kycs'[k] = kycs[k])]_vars

\* C9's case: a submission updated to Verified is read back as Verified while
\* the other submission was updated too and a moderation record exists.
C9_Witness ==
    /\ resp.op = "getKycById"
    /\ resp.value # <<>>
    /\ lastWrite[resp.id] = "Verified"
    /\ resp.value[1].kycStatus = "Verified"
    /\ \E k \in KycIds \ {resp.id} : lastWrite[k] = "Rejected"
    /\ moderations # <<>>

\* The sanitized maps of the drawn inputs.
sanitizedInputs == selectSanitizers(toLowerCase(docType), ocrData, kycData)

\* The comparator's result for field f of the sanitized inputs.
fieldMatches(f) ==
    compareStrings(valueAt(sanitizedInputs.ocr, f), valueAt(sanitizedInputs.kyc, f))

\* C3: isMatch is the conjunction of the per-field comparator results, the
\* mismatch map holds exactly the failing fields, each with both compared
\* values, and isMatch is true exactly when the mismatch map is empty.
C3_VerdictIsConjunction ==
    (cmp.pc = "done" /\ cmp.out.value # <<>>) =>
       LET v == cmp.out.value[1]
           compared == DOMAIN sanitizedInputs.ocr
       IN /\ v.isMatch = (\A f \in compared : fieldMatches(f))
          /\ DOMAIN v.mismatchResults = {f \in compared : ~fieldMatches(f)}
          /\ \A f \in DOMAIN v.mismatchResults :
                /\ v.mismatchResults[f].ocrValue = sanitizedInputs.ocr[f]
                /\ v.mismatchResults[f].kycValue = valueAt(sanitizedInputs.kyc, f)
          /\ v.isMatch <=> (DOMAIN v.mismatchResults = {})

\* C3's case: one field matches and the other does not.
C3_Witness ==
    /\ cmp.pc = "done"
    /\ cmp.out.value # <<>>
    /\ ~cmp.out.value[1].isMatch
    /\ Cardinality(DOMAIN cmp.out.value[1].mismatchResults) = 1
    /\ \E f \in Fields : fieldMatches(f) /\ valueAt(sanitizedInputs.ocr, f) # <<>>

rejectedAsUnsupported ==
    /\ cmp.out.error = <<(<<"Unsupported document type", docType>>)>>
    /\ cmp.out.sanitizerCalls = <<>>
    /\ cmp.out.comparisonResults = <<>>
    /\ cmp.out.value = <<>>

\* C5 as stated: every document type string that is not one of the five
\* enumerated strings is rejected as unsupported.
C5_NotEnumeratedRejected ==
    (cmp.pc = "done" /\ docType \notin SupportedTypes) => rejectedAsUnsupported

\* C5: every document type string whose lower-case form is not one of the
\* five enumerated strings is rejected as unsupported: no sanitizer runs, no
\* field is compared and no verdict is returned.
C5_UnsupportedRejected ==
    (cmp.pc = "done" /\ toLowerCase(docType) \notin SupportedTypes) => rejectedAsUnsupported

\* C5's case: a call with a type that names no document, on data that would
\* otherwise match.
C5_Witness ==
    /\ cmp.pc = "done"
    /\ toLowerCase(docType) \notin SupportedTypes
    /\ docType # <<>>
    /\ ocrData = kycData
    /\ DOMAIN ocrData = Fields
    /\ cmp.out.error # <<>>

\* The failure cause the extraction contract names for an answer of the
\* service.
causeOf(answer) ==
    IF answer.kind = "networkError" THEN "NetworkError"
    ELSE IF answer.kind # "response" THEN "none"
    ELSE IF answer.body = <<>> THEN "MissingPayload"
    ELSE IF answer.body[1].status # "ok" THEN "ServiceReportedError"
    ELSE IF answer.body[1].data = <<>> \/ answer.body[1].data[1].ocr = <<>>
    THEN "MalformedResponse"
    ELSE "none"

\* C6: the failure a caller of extractDataFromDocument sees tells the cause:
\* no answer of another cause would have produced the same failure.
C6_DistinctFailures ==
    (ext.pc = "failed" /\ causeOf(ext.answer) # "none") =>
       \A a \in ServiceAnswers :
          causeOf(a) \notin {"none", causeOf(ext.answer)}
          => extractDataFromDocument(a).error # ext.out.error

\* C7: a pending call of extractDataFromDocument can always be completed:
\* while it awaits the service, a step that ends it is enabled.
C7_PendingCallCompletes ==
    ext.pc = "awaiting" => ENABLED Settle

====
